---- MODULE Spec2Model ----
(***************************************************************************)
(* Telemetry ingestion pipelines of server/mqtt_to_csv.py (MQTTToCSV) and  *)
(* server/mqtt_to_mongo.py (MQTTToMongo).                                  *)
(*                                                                         *)
(* One process is modelled at a time.  `pipeline` says which script runs.  *)
(* Python values are written as strings: "None" is None, "" is the empty   *)
(* string, "0", "5", "12" are numbers.  A topic is the sequence of its     *)
(* '/'-separated segments.  A message body is a record saying whether the  *)
(* bytes are valid UTF-8 and what the text is syntactically.               *)
(***************************************************************************)
EXTENDS Integers, Sequences, FiniteSets, TLC

VARIABLES
    pipeline,        \* "csv" (mqtt_to_csv.py) or "mongo" (mqtt_to_mongo.py)
    supabase_url,    \* MQTTToCSV.supabase_url is set
    supabase_key,    \* MQTTToCSV.supabase_key is set
    requests,        \* module global `requests` is not None
    installed,       \* main() installed signal_handler for SIGINT/SIGTERM
    stop_requested,  \* module global stop_requested
    pc,              \* position of run()
    exc,             \* exception propagating out of run(), "none" if none
    ping,            \* result of the MongoDB ping of this process
    conn,            \* MQTT session
    inbox,           \* PUBLISH packets waiting on the socket
    published,       \* messages published by devices so far
    clock,           \* wall clock, milliseconds
    csvfile,         \* the file at MQTTToCSV.outfile
    col,             \* the MongoDB collection MQTTToMongo.col
    posts,           \* bodies of the requests.post calls issued
    saved,           \* number of 'Saved:' lines printed
    last,            \* what the latest on_message invocation did
    handled,         \* on_message invocations of this process
    connects,        \* client.connect calls of this process
    subscribes,      \* client.subscribe calls of this process
    disconnects,     \* client.disconnect calls of this process
    starts,          \* processes started so far
    inserts,         \* insert_one calls issued on MQTTToMongo.col
    scheme,          \* scheme of the broker URL, "None" if none
    port,            \* port given by URL or --port, NoPort if none
    transport,       \* transport of the paho client built by __init__
    tls,             \* __init__ called tls_set on the client
    connect_port     \* port passed to client.connect, NoPort before it

vars == <<pipeline, supabase_url, supabase_key, requests, installed,
          stop_requested, pc, exc, ping, conn, inbox, published, clock,
          csvfile, col, posts, saved, last, handled, connects, subscribes,
          disconnects, starts, inserts, scheme, port, transport, tls,
          connect_port>>

config == <<pipeline, supabase_url, supabase_key, requests, installed,
            scheme, port, transport, tls>>

-----------------------------------------------------------------------------
(* Bounds *)

MaxPublished == 2

MaxStarts == 2

MaxKeys == 2

MaxSegs == 4

-----------------------------------------------------------------------------
(* Program constants *)

FIELDNAMES ==
    << "ts", "ts_iso", "topic", "device_type", "device_id",
       "voltage", "shunt_mV", "current", "power",
       "soc_percent", "soh_percent", "uptime_ms", "raw_payload" >>

\* Metric columns of a CSV row and metric keys of a Mongo document.
CsvMetrics ==
    {"voltage", "shunt_mV", "current", "power", "soc_percent", "soh_percent",
     "uptime_ms"}

DocMetrics == {"voltage", "current", "power", "soc", "soh", "uptime_ms"}

\* Keys the handlers look up in the payload.
SourceKeys ==
    {"bus_V", "voltage", "shunt_mV", "current_A", "current", "power_W",
     "power", "soc_percent", "soc", "soh_percent", "soh", "uptime_ms",
     "uptime"}

\* Values of a payload key: JSON null, 0 and two non-zero numbers.
JsonValues == {"None", "0", "5", "12"}

\* Milliseconds that pass between two messages.
ClockStep == 500

StartClock == 1000

\* self.port is None
NoPort == -1

-----------------------------------------------------------------------------
(* Python helpers *)

EmptyDict == [k \in {} |-> "None"]

\* Truth value testing: None, 0 and '' are false.
Falsy(v) == v \in {"None", "0", ""}

\* a or b
Or(a, b) == IF Falsy(a) THEN b ELSE a

\* dict.get(k) and dict.get(k, default)
Get(p, k) == IF k \in DOMAIN p THEN p[k] ELSE "None"

GetDefault(p, k, d) == IF k \in DOMAIN p THEN p[k] ELSE d

Digit(d) == << "0", "1", "2", "3", "4", "5", "6", "7", "8", "9" >>[d + 1]

RECURSIVE Str(_)
\* str(n) for a non-negative integer
Str(n) == IF n < 10 THEN Digit(n) ELSE Str(n \div 10) \o Digit(n % 10)

\* time.strftime('%Y-%m-%dT%H:%M:%S', ...) of ts / 1000.0: whole seconds.
StrfTime(ts) == "T" \o Str(ts \div 1000)

\* Exceptions that `except Exception` catches; KeyboardInterrupt and
\* SystemExit derive from BaseException only.
ExceptionClass ==
    {"UnicodeDecodeError", "JSONDecodeError", "AttributeError", "OSError",
     "RuntimeError", "RequestException", "PyMongoError"}

CaughtNarrow(e) == e \in {"RuntimeError"}

\* except Exception
Caught(e) == e \in ExceptionClass

-----------------------------------------------------------------------------
(* Transport settings *)

\* x or y for an optional port: None and 0 are false.
PortOr(x, y) == IF x = NoPort \/ x = 0 THEN y ELSE x

\* MQTTToCSV.__init__, line 83
TransportCsv(sch) == IF sch \in {"ws", "wss"} THEN "websockets" ELSE "tcp"

\* MQTTToMongo.__init__, line 74
TransportMongo(sch) == IF sch \in {"ws", "wss"} THEN "websockets" ELSE "tcp"

TlsCsvNo8884(sch, prt) == sch \in {"mqtts", "wss"} \/ prt = 8883

\* MQTTToCSV.__init__, line 90: tls_set is called
TlsCsv(sch, prt) == sch \in {"mqtts", "wss"} \/ prt = 8883 \/ prt = 8884

\* MQTTToMongo.__init__, line 80: tls_set is called
TlsMongo(sch, prt) == sch \in {"mqtts", "wss"} \/ prt \in {8883, 8884}

\* MQTTToCSV.run, line 178
ConnectPortCsv(sch, prt) ==
    PortOr(prt, IF sch \in {"mqtts", "wss"} THEN 8883 ELSE 1883)

\* MQTTToMongo.run, line 154
ConnectPortMongo(sch, prt) ==
    PortOr(prt, IF sch \in {"mqtts", "wss"} THEN 8883 ELSE 1883)

\* The client settings chosen by __init__ of the script that runs.
ClientSettings ==
    /\ transport = IF pipeline = "csv" THEN TransportCsv(scheme)
                   ELSE TransportMongo(scheme)
    /\ tls = IF pipeline = "csv" THEN TlsCsv(scheme, port)
             ELSE TlsMongo(scheme, port)

-----------------------------------------------------------------------------
(* Messages *)

TextKinds ==
    {"garbage", "empty", "array", "number", "string", "null", "object"}

\* msg.payload.decode('utf-8'): the text, or UnicodeDecodeError.
Decode(body) ==
    [ok |-> body.utf8, text |-> [json |-> body.json, obj |-> body.obj]]

\* json.loads(text): a Python value [t, d], or JSONDecodeError.
JsonLoads(text) ==
    CASE text.json \in {"garbage", "empty"} ->
            [ok |-> FALSE, t |-> "none", d |-> EmptyDict]
      [] text.json = "array"  -> [ok |-> TRUE, t |-> "list", d |-> EmptyDict]
      [] text.json = "number" -> [ok |-> TRUE, t |-> "int", d |-> EmptyDict]
      [] text.json = "string" -> [ok |-> TRUE, t |-> "str", d |-> EmptyDict]
      [] text.json = "null"   -> [ok |-> TRUE, t |-> "NoneType", d |-> EmptyDict]
      [] text.json = "object" -> [ok |-> TRUE, t |-> "dict", d |-> text.obj]

IsDict(v) == v.t = "dict"

ClassifyCsvShort(parts) ==
    IF Len(parts) >= 3 /\ parts[1] = "energy"
        THEN [device_type |-> parts[2], device_id |-> parts[3]]
    ELSE IF Len(parts) >= 1 /\ parts[1] = "battery"
        THEN [device_type |-> "battery", device_id |-> "esp32_bms"]
    ELSE [device_type |-> "", device_id |-> ""]

\* Classification of the topic, mqtt_to_csv.py.
ClassifyCsv(parts) ==
    IF Len(parts) >= 4 /\ parts[1] = "energy"
        THEN [device_type |-> parts[2], device_id |-> parts[3]]
    ELSE IF Len(parts) >= 1 /\ parts[1] = "battery"
        THEN [device_type |-> "battery", device_id |-> "esp32_bms"]
    ELSE [device_type |-> "", device_id |-> ""]

\* Classification of the topic, mqtt_to_mongo.py.
ClassifyMongo(parts) ==
    IF Len(parts) >= 4 /\ parts[1] = "energy"
        THEN [device_type |-> parts[2], device_id |-> parts[3]]
    ELSE IF Len(parts) >= 1 /\ parts[1] = "battery"
        THEN [device_type |-> "esp32", device_id |-> "esp32_1"]
    ELSE [device_type |-> "", device_id |-> ""]

\* The row dict of MQTTToCSV.on_message.
CsvRow(topic, text, payload, ts) ==
    LET p == IF IsDict(payload) THEN payload.d ELSE EmptyDict
        c == ClassifyCsv(topic)
    IN  [ ts          |-> ts,
          ts_iso      |-> StrfTime(ts),
          topic       |-> topic,
          device_type |-> c.device_type,
          device_id   |-> c.device_id,
          voltage     |-> Or(Get(p, "bus_V"), GetDefault(p, "voltage", "")),
          shunt_mV    |-> GetDefault(p, "shunt_mV", ""),
          current     |-> Or(Get(p, "current_A"), GetDefault(p, "current", "")),
          power       |-> Or(Get(p, "power_W"), GetDefault(p, "power", "")),
          soc_percent |-> GetDefault(p, "soc_percent", ""),
          soh_percent |-> GetDefault(p, "soh_percent", ""),
          uptime_ms   |-> GetDefault(p, "uptime_ms", ""),
          raw_payload |-> text ]

\* The doc dict of MQTTToMongo.on_message; p is a dict.
MongoDoc(topic, text, p, ts) ==
    LET c == ClassifyMongo(topic)
    IN  [ ts          |-> ts,
          ts_iso      |-> StrfTime(ts),
          topic       |-> topic,
          device_type |-> c.device_type,
          device_id   |-> c.device_id,
          voltage     |-> Or(Get(p, "bus_V"), Get(p, "voltage")),
          current     |-> Or(Get(p, "current_A"), Get(p, "current")),
          power       |-> Or(Get(p, "power_W"), Get(p, "power")),
          soc         |-> Or(Get(p, "soc_percent"), Get(p, "soc")),
          soh         |-> Or(Get(p, "soh_percent"), Get(p, "soh")),
          uptime_ms   |-> Or(Get(p, "uptime_ms"), Get(p, "uptime")),
          raw_payload |-> text,
          received_at |-> StrfTime(ts) ]

\* The data dict of MQTTToCSV._send_to_supabase; p is a dict.
SupabaseData(row, topic, p) ==
    [ ts          |-> row.ts,
      ts_iso      |-> row.ts_iso,
      topic       |-> topic,
      device_type |-> row.device_type,
      device_id   |-> row.device_id,
      voltage     |-> Or(Get(p, "bus_V"), Get(p, "voltage")),
      current     |-> Or(Get(p, "current_A"), Get(p, "current")),
      power       |-> Or(Get(p, "power_W"), Get(p, "power")),
      soc         |-> Or(Get(p, "soc_percent"), Get(p, "soc")),
      soh         |-> Or(Get(p, "soh_percent"), Get(p, "soh")),
      uptime_ms   |-> Or(Get(p, "uptime_ms"), Get(p, "uptime")),
      raw_payload |-> row.raw_payload ]

\* The value of p in _send_to_supabase before data is built: a Python value.
\* row.get('raw_payload') or '{}' replaces the empty text by '{}'.
SupabaseSource(payload, row) ==
    IF IsDict(payload) THEN payload
    ELSE IF row.raw_payload.json = "empty"
        THEN [ok |-> TRUE, t |-> "dict", d |-> EmptyDict]
    ELSE IF JsonLoads(row.raw_payload).ok THEN JsonLoads(row.raw_payload)
    ELSE [ok |-> TRUE, t |-> "dict", d |-> EmptyDict]

-----------------------------------------------------------------------------
(* The CSV file *)

AbsentFile == [exists |-> FALSE, lines |-> << >>]

\* csv.writer cell: None is written as the empty string, an int by str().
CsvCell(k, v) ==
    IF k = "ts" THEN Str(v)
    ELSE IF k \in CsvMetrics /\ v = "None" THEN ""
    ELSE v

\* csv.DictWriter.writerow: the cells in the order of fieldnames.
DictWriterRow(row) ==
    [i \in 1..Len(FIELDNAMES) |-> CsvCell(FIELDNAMES[i], row[FIELDNAMES[i]])]

\* csv.DictWriter.writeheader
WriteHeader == FIELDNAMES

EnsureCsvAlways(file) == [exists |-> TRUE, lines |-> << WriteHeader >>]

\* MQTTToCSV.__init__: create the file with the header unless it exists.
EnsureCsv(file) ==
    IF ~file.exists THEN [exists |-> TRUE, lines |-> << WriteHeader >>]
    ELSE file

\* open('a') and writerow
AppendRow(file, row) ==
    [exists |-> TRUE, lines |-> Append(file.lines, DictWriterRow(row))]

-----------------------------------------------------------------------------
(* Message handlers *)

NoLast ==
    [ topic |-> << >>, body |-> << >>, decoded |-> FALSE, sinkUp |-> FALSE,
      csv |-> "skip", row |-> << >>, insert |-> "skip", doc |-> << >>,
      supabase |-> "skip", http |-> "none", data |-> << >>,
      error |-> "none", ret |-> "none" ]

MissingRequestsFatal == "SystemExit"

\* _send_to_supabase, line 196: the error raised when requests is None.
MissingRequestsError == "RuntimeError"

\* What leaves a try block whose only clause is `except Exception`.
Escapes(e) == IF e = "none" \/ Caught(e) THEN "none" ELSE e

\* How on_message ends when exception e (or "none") leaves its body.
Return(e) == IF Escapes(e) = "none" THEN "normal" ELSE "escaped"

\* _send_to_supabase up to the requests.post call.
\* supabase: "raised" (an exception before the POST) or "post".
SendToSupabase(payload, row, topic) ==
    LET p == SupabaseSource(payload, row)
    IN  IF ~requests
            THEN [supabase |-> "raised", e |-> MissingRequestsError, data |-> << >>]
        ELSE IF ~IsDict(p)
            THEN [supabase |-> "raised", e |-> "AttributeError", data |-> << >>]
        ELSE [supabase |-> "post", e |-> "none",
              data |-> << SupabaseData(row, topic, p.d) >>]

\* MQTTToCSV.on_message up to the point where it returns or blocks in
\* requests.post.  csvOk: the append to the file succeeds.
CsvHandler(msg, ts, csvOk) ==
    LET dec     == Decode(msg.body)
        loaded  == JsonLoads(dec.text)
        payload == IF loaded.ok THEN loaded
                   ELSE [ok |-> TRUE, t |-> "str", d |-> EmptyDict]
        row     == CsvRow(msg.topic, dec.text, payload, ts)
        base    == [NoLast EXCEPT !.topic = msg.topic, !.body = << msg.body >>,
                                  !.sinkUp = csvOk]
    IN  IF ~dec.ok
            THEN [base EXCEPT !.error = "UnicodeDecodeError",
                              !.ret = Return("UnicodeDecodeError")]
        ELSE IF ~csvOk
            THEN [base EXCEPT !.decoded = TRUE, !.csv = "fail",
                              !.error = "OSError", !.ret = Return("OSError")]
        ELSE IF ~(supabase_url /\ supabase_key)
            THEN [base EXCEPT !.decoded = TRUE, !.csv = "ok", !.row = << row >>,
                              !.ret = "normal"]
        ELSE LET s == SendToSupabase(payload, row, msg.topic)
             IN  IF s.supabase = "post"
                     THEN [base EXCEPT !.decoded = TRUE, !.csv = "ok",
                                       !.row = << row >>, !.supabase = "post",
                                       !.http = "pending", !.data = s.data,
                                       !.ret = "pending"]
                 ELSE [base EXCEPT !.decoded = TRUE, !.csv = "ok",
                                   !.row = << row >>, !.supabase = "raised",
                                   !.http = s.e,
                                   !.error = Escapes(s.e),
                                   !.ret = Return(Escapes(s.e))]

\* MQTTToMongo.on_message.  mongoOk: insert_one succeeds.
MongoHandler(msg, ts, mongoOk) ==
    LET dec     == Decode(msg.body)
        loaded  == JsonLoads(dec.text)
        payload == IF loaded.ok THEN loaded
                   ELSE [ok |-> TRUE, t |-> "dict", d |-> EmptyDict]
        base    == [NoLast EXCEPT !.topic = msg.topic, !.body = << msg.body >>,
                                  !.sinkUp = mongoOk]
    IN  IF ~dec.ok
            THEN [base EXCEPT !.error = "UnicodeDecodeError",
                              !.ret = Return("UnicodeDecodeError")]
        ELSE IF ~IsDict(payload)
            THEN [base EXCEPT !.decoded = TRUE, !.error = "AttributeError",
                              !.ret = Return("AttributeError")]
        ELSE IF ~mongoOk
            THEN [base EXCEPT !.decoded = TRUE, !.insert = "PyMongoError",
                              !.error = Escapes("PyMongoError"),
                              !.ret = Return(Escapes("PyMongoError"))]
        ELSE [base EXCEPT !.decoded = TRUE, !.insert = "ok",
                          !.doc = << MongoDoc(msg.topic, dec.text, payload.d, ts) >>,
                          !.ret = "normal"]

\* Where run() continues after on_message ended with r.ret.
AfterHandler(r) ==
    CASE r.ret = "pending" -> "posting"
      [] r.ret = "normal"  -> "loop_check"
      [] OTHER             -> "finally"

\* The exception that run() re-raises after its finally block.
Pending(r) == IF r.ret = "escaped" THEN r.error ELSE "none"

-----------------------------------------------------------------------------
(* Inputs *)

Topics ==
    { << "energy", "solar", "panel7", "telemetry" >>,
      << "battery", "data" >>,
      << "home", "plug" >> }

Body(utf8, kind, obj) == [utf8 |-> utf8, json |-> kind, obj |-> obj]

\* JSON objects with at most MaxKeys of the source keys.
Objects ==
    UNION { [S -> JsonValues] :
            S \in {T \in SUBSET SourceKeys : Cardinality(T) <= MaxKeys} }

\* Every body shape, for the checks of the handlers alone.
AllBodies ==
    {Body(u, k, EmptyDict) : u \in BOOLEAN, k \in TextKinds \ {"object"}}
        \cup {Body(TRUE, "object", o) : o \in Objects}

\* The messages published while the whole pipeline runs: bytes that are not
\* UTF-8, text that is not JSON, JSON that is not an object, and an object
\* whose first voltage key is 0.
Messages ==
    { [topic |-> << "home", "plug" >>,
       body |-> Body(FALSE, "garbage", EmptyDict)],
      [topic |-> << "battery", "data" >>,
       body |-> Body(TRUE, "garbage", EmptyDict)],
      [topic |-> << "battery", "data" >>,
       body |-> Body(TRUE, "array", EmptyDict)],
      [topic |-> << "energy", "solar", "panel7", "telemetry" >>,
       body |-> Body(TRUE, "object", [k \in {"bus_V", "voltage"} |->
                                         IF k = "bus_V" THEN "0" ELSE "5"])] }

\* Results of requests.post: a status code, or an exception of requests.
HttpOutcomes == {"201", "204", "500", "Timeout"}

\* CONNACK return codes: accepted, not authorised.
ConnackCodes == {0, 5}

\* Schemes and ports of the broker given to main().
Schemes == {"None", "mqtt", "tcp", "mqtts", "ws", "wss"}

Ports == {NoPort, 0, 1883, 8883, 8884, 9001}

\* The broker of the usage example: wss://...:8884/mqtt
SampleSchemes == {"wss"}

SamplePorts == {8884}

Configs ==
    { <<"mongo", FALSE, FALSE, TRUE>>,
      <<"csv", FALSE, FALSE, TRUE>>, <<"csv", TRUE, FALSE, TRUE>>,
      <<"csv", FALSE, TRUE, TRUE>>, <<"csv", TRUE, TRUE, TRUE>>,
      <<"csv", TRUE, TRUE, FALSE>> }

-----------------------------------------------------------------------------
(* State after main() has built the service object *)

\* main() has built the service object for a broker with a scheme of schemes
\* and a port of ports.
MainInit(schemes, ports) ==
    /\ \E c \in Configs :
          /\ pipeline = c[1]
          /\ supabase_url = c[2]
          /\ supabase_key = c[3]
          /\ requests = c[4]
    /\ installed \in BOOLEAN
    /\ stop_requested = FALSE
    /\ pc = "run"
    /\ exc = "none"
    /\ ping = "none"
    /\ conn = "idle"
    /\ inbox = << >>
    /\ published = 0
    /\ clock = StartClock
    /\ csvfile = IF pipeline = "csv" THEN EnsureCsv(AbsentFile) ELSE AbsentFile
    /\ col = << >>
    /\ posts = << >>
    /\ saved = 0
    /\ last = NoLast
    /\ handled = 0
    /\ connects = 0
    /\ subscribes = 0
    /\ disconnects = 0
    /\ starts = 1
    /\ inserts = 0
    /\ scheme \in schemes
    /\ port \in ports
    /\ ClientSettings
    /\ connect_port = NoPort

Init == MainInit(SampleSchemes, SamplePorts)

-----------------------------------------------------------------------------
(* run() *)

Alive == pc \notin {"returned", "raised"}

AfterPingAlways(r) == "pinged"

\* MQTTToMongo.run, lines 146-151: a failed ping is re-raised.
AfterPing(r) == IF r = "ok" THEN "pinged" ELSE "raised"

\* MQTTToMongo.run: self.client.admin.command('ping')
Ping ==
    /\ pipeline = "mongo"
    /\ pc = "run"
    /\ \E r \in {"ok", "fail"} :
          /\ ping' = r
          /\ pc' = AfterPing(r)
          /\ exc' = IF AfterPing(r) = "raised" THEN "PyMongoError" ELSE exc
    /\ UNCHANGED <<config, stop_requested, conn, inbox, published, clock,
                   csvfile, col, posts, saved, last, handled, connects,
                   subscribes, disconnects, starts, inserts, connect_port>>

\* run(): the broker check of MQTTToCSV and client.connect(host, port).
\* r = "nobroker": self.broker is empty; "refused": connect raises OSError.
Connect ==
    /\ \/ pipeline = "csv" /\ pc = "run"
       \/ pipeline = "mongo" /\ pc = "pinged"
    /\ \E r \in {"ok", "refused", "nobroker"} :
          /\ r = "nobroker" => pipeline = "csv"
          /\ connects' = IF r = "nobroker" THEN connects ELSE connects + 1
          /\ connect_port' =
                IF r = "nobroker" THEN connect_port
                ELSE IF pipeline = "csv" THEN ConnectPortCsv(scheme, port)
                ELSE ConnectPortMongo(scheme, port)
          /\ conn' = IF r = "ok" THEN "connecting" ELSE conn
          /\ pc' = IF r = "ok" THEN "loop_check" ELSE "raised"
          /\ exc' = CASE r = "ok" -> exc
                      [] r = "refused" -> "OSError"
                      [] r = "nobroker" -> "RuntimeError"
    /\ UNCHANGED <<config, stop_requested, ping, inbox, published, clock,
                   csvfile, col, posts, saved, last, handled, subscribes,
                   disconnects, starts, inserts>>

LoopConditionTrue(stop) == TRUE

\* while not stop_requested
LoopCondition(stop) == ~stop

LoopCheck ==
    /\ pc = "loop_check"
    /\ pc' = IF LoopCondition(stop_requested) THEN "in_loop" ELSE "finally"
    /\ UNCHANGED <<config, stop_requested, exc, ping, conn, inbox, published,
                   clock, csvfile, col, posts, saved, last, handled, connects,
                   subscribes, disconnects, starts, inserts, connect_port>>

\* client.loop(timeout=1.0) returns without having called a callback.
LoopTimeout ==
    /\ pc = "in_loop"
    /\ pc' = "loop_check"
    /\ UNCHANGED <<config, stop_requested, exc, ping, conn, inbox, published,
                   clock, csvfile, col, posts, saved, last, handled, connects,
                   subscribes, disconnects, starts, inserts, connect_port>>

\* client.loop reads the CONNACK and calls on_connect(rc), which subscribes
\* whatever rc is.
OnConnect ==
    /\ pc = "in_loop"
    /\ conn = "connecting"
    /\ \E rc \in ConnackCodes :
          conn' = IF rc = 0 THEN "subscribed" ELSE "refused"
    /\ subscribes' = subscribes + 1
    /\ pc' = "loop_check"
    /\ UNCHANGED <<config, stop_requested, exc, ping, inbox, published, clock,
                   csvfile, col, posts, saved, last, handled, connects,
                   disconnects, starts, inserts, connect_port>>

LoopReconnectsForever == TRUE

\* run() calls client.loop(timeout=1.0), not loop_forever: a lost connection
\* is reported by the return code, which run() ignores, and no reconnect is
\* made.
LoopReconnects == FALSE

\* client.loop finds the connection gone and returns an error code.
ConnectionLost ==
    /\ pc = "in_loop"
    /\ conn \in {"connecting", "subscribed"}
    /\ conn' = IF LoopReconnects THEN "connecting" ELSE "lost"
    /\ connects' = IF LoopReconnects THEN connects + 1 ELSE connects
    /\ inbox' = << >>
    /\ pc' = "loop_check"
    /\ UNCHANGED <<config, stop_requested, exc, ping, published, clock,
                   csvfile, col, posts, saved, last, handled, subscribes,
                   disconnects, starts, inserts, connect_port>>

\* client.loop reads a PUBLISH and calls MQTTToCSV.on_message.
OnMessageCsv ==
    /\ pipeline = "csv"
    /\ pc = "in_loop"
    /\ conn = "subscribed"
    /\ inbox # << >>
    /\ \E csvOk \in BOOLEAN :
          LET r == CsvHandler(Head(inbox), clock, csvOk)
          IN  /\ last' = r
              /\ csvfile' = IF r.csv = "ok" THEN AppendRow(csvfile, r.row[1])
                            ELSE csvfile
              /\ saved' = IF r.csv = "ok" THEN saved + 1 ELSE saved
              /\ posts' = IF r.supabase = "post" THEN posts \o r.data ELSE posts
              /\ pc' = AfterHandler(r)
              /\ exc' = Pending(r)
    /\ inbox' = Tail(inbox)
    /\ clock' = clock + ClockStep
    /\ handled' = handled + 1
    /\ UNCHANGED <<config, stop_requested, ping, conn, published, col,
                   connects, subscribes, disconnects, starts, inserts, connect_port>>

\* _send_to_supabase, lines 230-232: the error raised for the result o of
\* requests.post.
PostError(o) ==
    CASE o \in {"200", "201"} -> "none"
      [] o \in {"Timeout"} -> "RequestException"
      [] OTHER -> "RuntimeError"

\* requests.post returns or raises; on_message ends.
SupabaseReturn ==
    /\ pc = "posting"
    /\ \E o \in HttpOutcomes :
          LET e == Escapes(PostError(o))
              r == [last EXCEPT !.http = o, !.error = e, !.ret = Return(e)]
          IN  /\ last' = r
              /\ pc' = AfterHandler(r)
              /\ exc' = Pending(r)
    /\ UNCHANGED <<config, stop_requested, ping, conn, inbox, published,
                   clock, csvfile, col, posts, saved, handled, connects,
                   subscribes, disconnects, starts, inserts, connect_port>>

InsertCallsRetry(ok) == IF ok THEN 1 ELSE 2

\* MQTTToMongo.on_message, lines 135-139: insert_one is called once, whether
\* it succeeds or raises.
InsertCalls(ok) == 1

\* client.loop reads a PUBLISH and calls MQTTToMongo.on_message.
OnMessageMongo ==
    /\ pipeline = "mongo"
    /\ pc = "in_loop"
    /\ conn = "subscribed"
    /\ inbox # << >>
    /\ \E mongoOk \in BOOLEAN :
          LET r == MongoHandler(Head(inbox), clock, mongoOk)
          IN  /\ last' = r
              /\ col' = IF r.insert = "ok" THEN col \o r.doc ELSE col
              /\ inserts' = IF r.insert = "skip" THEN inserts
                             ELSE inserts + InsertCalls(mongoOk)
              /\ pc' = AfterHandler(r)
              /\ exc' = Pending(r)
    /\ inbox' = Tail(inbox)
    /\ clock' = clock + ClockStep
    /\ handled' = handled + 1
    /\ UNCHANGED <<config, stop_requested, ping, conn, published, csvfile,
                   posts, saved, connects, subscribes, disconnects, starts,
                   connect_port>>

DisconnectTwice(n) == n + 2

\* The finally block of run(): client.disconnect() is called once.
DisconnectCalls(n) == n + 1

Finally ==
    /\ pc = "finally"
    /\ disconnects' = DisconnectCalls(disconnects)
    /\ conn' = "closed"
    /\ inbox' = << >>
    /\ pc' = IF exc = "none" THEN "returned" ELSE "raised"
    /\ UNCHANGED <<config, stop_requested, exc, ping, published, clock,
                   csvfile, col, posts, saved, last, handled, connects,
                   subscribes, starts, inserts, connect_port>>

-----------------------------------------------------------------------------
(* Environment *)

\* A device publishes and the broker forwards to the subscribed client.
Publish ==
    /\ conn = "subscribed"
    /\ published < MaxPublished
    /\ \E m \in Messages : inbox' = Append(inbox, m)
    /\ published' = published + 1
    /\ UNCHANGED <<config, stop_requested, pc, exc, ping, conn, clock,
                   csvfile, col, posts, saved, last, handled, connects,
                   subscribes, disconnects, starts, inserts, connect_port>>

\* SIGINT or SIGTERM with signal_handler installed.
Signal ==
    /\ installed
    /\ Alive
    /\ stop_requested' = TRUE
    /\ UNCHANGED <<config, pc, exc, ping, conn, inbox, published, clock,
                   csvfile, col, posts, saved, last, handled, connects,
                   subscribes, disconnects, starts, inserts, connect_port>>

\* SIGINT with the default handler: KeyboardInterrupt is raised in run().
\* Inside the try block it is caught (line 186); before it, it leaves run().
KeyboardInterrupt ==
    /\ ~installed
    /\ pc \in {"run", "pinged", "loop_check", "in_loop", "posting"}
    /\ pc' = IF pc \in {"run", "pinged"} THEN "raised" ELSE "finally"
    /\ exc' = IF pc \in {"run", "pinged"} THEN "KeyboardInterrupt" ELSE exc
    /\ last' = IF pc = "posting"
                 THEN [last EXCEPT !.http = "interrupted", !.ret = "interrupted"]
                 ELSE last
    /\ UNCHANGED <<config, stop_requested, ping, conn, inbox, published,
                   clock, csvfile, col, posts, saved, handled, connects,
                   subscribes, disconnects, starts, inserts, connect_port>>

\* The process has ended and the script is started again with the same
\* configuration: module globals are fresh, __init__ runs.
Restart ==
    /\ ~Alive
    /\ starts < MaxStarts
    /\ starts' = starts + 1
    /\ stop_requested' = FALSE
    /\ pc' = "run"
    /\ exc' = "none"
    /\ ping' = "none"
    /\ conn' = "idle"
    /\ inbox' = << >>
    /\ last' = NoLast
    /\ handled' = 0
    /\ connects' = 0
    /\ subscribes' = 0
    /\ disconnects' = 0
    /\ csvfile' = IF pipeline = "csv" THEN EnsureCsv(csvfile) ELSE csvfile
    /\ connect_port' = NoPort
    /\ UNCHANGED <<config, published, clock, col, posts, saved, inserts>>

Next ==
    \/ Ping
    \/ Connect
    \/ LoopCheck
    \/ LoopTimeout
    \/ OnConnect
    \/ ConnectionLost
    \/ OnMessageCsv
    \/ SupabaseReturn
    \/ OnMessageMongo
    \/ Finally
    \/ Publish
    \/ Signal
    \/ KeyboardInterrupt
    \/ Restart

Spec == Init /\ [][Next]_vars

TypeOK ==
    /\ pc \in {"run", "pinged", "loop_check", "in_loop", "posting", "finally",
               "returned", "raised"}
    /\ conn \in {"idle", "connecting", "subscribed", "refused", "lost", "closed"}
    /\ Len(inbox) <= MaxPublished
    /\ scheme \in Schemes
    /\ port \in Ports
    /\ transport \in {"tcp", "websockets"}
    /\ tls \in BOOLEAN
    /\ connect_port \in {NoPort, 1883, 8883, 8884, 9001}
    /\ inserts \in Nat

-----------------------------------------------------------------------------
(* The handlers alone: one message of any shape waits on the socket of a   *)
(* subscribed client that is inside client.loop.                           *)

NormConfigs ==
    { <<"mongo", FALSE, FALSE, TRUE>>, <<"csv", FALSE, FALSE, TRUE>>,
      <<"csv", TRUE, TRUE, TRUE>> }

\* A subscribed client inside client.loop with one message waiting, its
\* topic from ts and its body from bs.
HandlerInit(ts, bs) ==
    /\ \E c \in NormConfigs :
          /\ pipeline = c[1]
          /\ supabase_url = c[2]
          /\ supabase_key = c[3]
          /\ requests = c[4]
    /\ installed = TRUE
    /\ stop_requested = FALSE
    /\ pc = "in_loop"
    /\ exc = "none"
    /\ ping = IF pipeline = "mongo" THEN "ok" ELSE "none"
    /\ conn = "subscribed"
    /\ \E t \in ts, b \in bs : inbox = << [topic |-> t, body |-> b] >>
    /\ published = 1
    /\ clock = StartClock
    /\ csvfile = IF pipeline = "csv" THEN EnsureCsv(AbsentFile) ELSE AbsentFile
    /\ col = << >>
    /\ posts = << >>
    /\ saved = 0
    /\ last = NoLast
    /\ handled = 0
    /\ connects = 1
    /\ subscribes = 1
    /\ disconnects = 0
    /\ starts = 1
    /\ inserts = 0
    /\ scheme \in SampleSchemes
    /\ port \in SamplePorts
    /\ ClientSettings
    /\ connect_port = IF pipeline = "csv" THEN ConnectPortCsv(scheme, port)
                      ELSE ConnectPortMongo(scheme, port)

NormInit == HandlerInit(Topics, AllBodies)

NormNext == OnMessageCsv \/ OnMessageMongo \/ SupabaseReturn

NormSpec == NormInit /\ [][NormNext]_vars

-----------------------------------------------------------------------------
(* The handlers alone, for every topic of up to MaxSegs segments.          *)

Segments == {"energy", "battery", "solar", "panel7"}

AllTopics == UNION { [1..n -> Segments] : n \in 1..MaxSegs }

ClassBodies ==
    { Body(TRUE, "garbage", EmptyDict), Body(TRUE, "object", EmptyDict) }

ClassInit == HandlerInit(AllTopics, ClassBodies)

ClassSpec == ClassInit /\ [][NormNext]_vars

-----------------------------------------------------------------------------
(* Start of run() for every scheme and port.                               *)

TransportInit == MainInit(Schemes, Ports)

TransportNext == Ping \/ Connect

TransportSpec == TransportInit /\ [][TransportNext]_vars

-----------------------------------------------------------------------------
(* Scheduling: client.loop(timeout=1.0) returns, requests.post(timeout=10) *)
(* returns or raises, and run() keeps executing.                           *)

LoopStep ==
    LoopTimeout \/ OnConnect \/ ConnectionLost \/ OnMessageCsv \/ OnMessageMongo

FairSpec ==
    /\ Spec
    /\ WF_vars(LoopCheck)
    /\ WF_vars(LoopStep)
    /\ WF_vars(SupabaseReturn)
    /\ WF_vars(Finally)

-----------------------------------------------------------------------------
(* Properties *)

Configured == supabase_url /\ supabase_key

LastLine == csvfile.lines[Len(csvfile.lines)]

HttpFailures == {"204", "500", "Timeout"}

\* C1: in the CSV pipeline a failed CSV append does not keep the configured
\* remote HTTP sink from being attempted for the same message, and a failed
\* remote HTTP sink leaves the CSV row of the message written.
C1_SinkIndependence ==
    (pipeline = "csv" /\ last.decoded) =>
        /\ (last.csv = "fail" /\ Configured) => last.supabase # "skip"
        /\ (last.http \in HttpFailures) =>
              /\ last.csv = "ok"
              /\ LastLine = DictWriterRow(last.row[1])

\* C2: while a remote HTTP call is in flight, the receive loop is able to
\* hand the next waiting message to the handler.
C2_HttpIsolation ==
    (pipeline = "csv" /\ pc = "posting" /\ conn = "subscribed"
        /\ inbox # << >> /\ ~stop_requested) => ENABLED OnMessageCsv

\* A field without a value: '' in a CSV row, None in a document.
Empty(v) == v \in {"", "None"}

HandledBody == last.body[1]

HandledText == [json |-> HandledBody.json, obj |-> HandledBody.obj]

\* C3: a message whose text is not JSON, or is JSON but not an object, puts
\* exactly one record into the durable sink of either pipeline (the sink
\* accepting writes), with every metric field empty and raw_payload equal to
\* the decoded text.
C3_NonObjectDelivered ==
    (handled = 1 /\ HandledBody.utf8 /\ HandledBody.json # "object"
        /\ last.sinkUp) =>
        IF pipeline = "csv"
            THEN /\ Len(csvfile.lines) = 2
                 /\ \A i \in 6..12 : LastLine[i] = ""
                 /\ LastLine[13] = HandledText
            ELSE /\ Len(col) = 1
                 /\ \A k \in DocMetrics : Empty(col[1][k])
                 /\ col[1].raw_payload = HandledText

\* The value the priority list keys of payload object p resolves to: that of
\* the first key present and not null, empty when there is none.
RECURSIVE FirstPresent(_, _)
FirstPresent(p, keys) ==
    IF keys = << >> THEN ""
    ELSE IF Head(keys) \in DOMAIN p /\ p[Head(keys)] # "None" THEN p[Head(keys)]
    ELSE FirstPresent(p, Tail(keys))

SameValue(a, b) == a = b \/ (Empty(a) /\ Empty(b))

\* C4: for a JSON object payload, voltage, current and power of the record
\* delivered to the durable sink are the value of the first source key that
\* is present and not null (bus_V then voltage, current_A then current,
\* power_W then power), also when that value is 0.
C4_FirstPresentNonNull ==
    (handled = 1 /\ HandledBody.utf8 /\ HandledBody.json = "object"
        /\ last.sinkUp) =>
        LET p == HandledBody.obj
            v == FirstPresent(p, << "bus_V", "voltage" >>)
            c == FirstPresent(p, << "current_A", "current" >>)
            w == FirstPresent(p, << "power_W", "power" >>)
        IN  IF pipeline = "csv"
                THEN /\ Len(csvfile.lines) = 2
                     /\ SameValue(LastLine[6], v)
                     /\ SameValue(LastLine[8], c)
                     /\ SameValue(LastLine[9], w)
                ELSE /\ Len(col) = 1
                     /\ SameValue(col[1].voltage, v)
                     /\ SameValue(col[1].current, c)
                     /\ SameValue(col[1].power, w)

\* C5: starting from an absent file, over process starts and appends the
\* CSV file is one header row followed by one 13-column data row per
\* successful append, the cells in the order of FIELDNAMES; no step removes
\* or rewrites a line that is already in the file.
C5_CsvShape ==
    /\ [](csvfile.exists =>
            /\ Len(csvfile.lines) = 1 + saved
            /\ csvfile.lines[1] = FIELDNAMES
            /\ \A i \in 2..Len(csvfile.lines) :
                  /\ Len(csvfile.lines[i]) = 13
                  /\ csvfile.lines[i][1] # "ts"
            /\ (last.csv = "ok" =>
                  /\ LastLine[1] = Str(last.row[1].ts)
                  /\ LastLine[3] = last.topic
                  /\ LastLine[4] = last.row[1].device_type
                  /\ LastLine[5] = last.row[1].device_id
                  /\ SameValue(LastLine[6], last.row[1].voltage)
                  /\ SameValue(LastLine[8], last.row[1].current)
                  /\ SameValue(LastLine[9], last.row[1].power)
                  /\ LastLine[13] = HandledText))
    /\ [][csvfile.exists =>
            /\ csvfile'.exists
            /\ Len(csvfile'.lines) >= Len(csvfile.lines)
            /\ SubSeq(csvfile'.lines, 1, Len(csvfile.lines)) = csvfile.lines]_vars

\* A second process has appended a row after the row of the first one.
C5_Witness ==
    /\ pipeline = "csv"
    /\ starts = 2
    /\ handled = 1
    /\ last.csv = "ok"
    /\ Len(csvfile.lines) = 3

\* C6: no exception raised by the handling of a message leaves on_message:
\* the handler returns, run() goes on to the next loop iteration with no
\* exception pending, and a message that is not valid UTF-8 adds nothing to
\* the CSV file, the collection or the POSTs.
C6_HandlerContains ==
    /\ [](last.ret # "escaped")
    /\ [][handled' = handled + 1 =>
            /\ pc' \in {"loop_check", "posting"}
            /\ exc' = "none"
            /\ (~Head(inbox).body.utf8 =>
                  /\ csvfile' = csvfile
                  /\ col' = col
                  /\ posts' = posts
                  /\ pc' = "loop_check")]_vars
    /\ [][(pc = "posting" /\ pc' # "posting" /\ last'.ret # "interrupted") =>
            (pc' = "loop_check" /\ exc' = "none")]_vars

\* A message that failed to decode was skipped and the loop goes on.
C6_Witness ==
    /\ last.error = "UnicodeDecodeError"
    /\ last.ret = "normal"
    /\ pc = "in_loop"
    /\ inbox # << >>

\* C7 as stated: once the stop flag is set no handler invocation begins.
C7_NoHandlerAfterStop == [][stop_requested => ~(handled' > handled)]_vars

\* C7 amended: once the stop flag is set no new iteration of the receive
\* loop begins, and a handler invocation begins only inside an iteration;
\* only the iteration in progress when the flag was set can still invoke
\* the handler.
C7_NoIterationAfterStop ==
    [][/\ (stop_requested /\ pc # "in_loop") => pc' # "in_loop"
       /\ (handled' > handled) => pc = "in_loop"]_vars

\* The loop ended on the flag while a message was still waiting.
C7_Witness ==
    /\ stop_requested
    /\ pc = "finally"
    /\ inbox # << >>

\* C8: once the stop flag is set while the loop runs, run() eventually
\* returns; when run() has left the loop (on the flag or on
\* KeyboardInterrupt) disconnect has been called exactly once and the
\* session is closed; the flag is never cleared in a running process.
C8_Shutdown ==
    /\ (stop_requested /\ pc \in {"loop_check", "in_loop", "posting"})
          ~> (pc = "returned")
    /\ [](pc = "returned" => (disconnects = 1 /\ conn = "closed"))
    /\ [](disconnects <= 1)
    /\ [](pc \in {"loop_check", "in_loop", "posting", "finally"}
            => disconnects = 0)
    /\ [][(stop_requested /\ starts' = starts) => stop_requested']_vars

\* run() returned on the stop flag after having handled a message.
C8_Witness ==
    /\ stop_requested
    /\ pc = "returned"
    /\ handled >= 1
    /\ disconnects = 1

\* C9: in the Mongo pipeline connect, subscribe and message handling happen
\* only after a successful ping; after a failed ping run() has raised
\* without connecting.
C9_PingBeforeConnect ==
    pipeline = "mongo" =>
        /\ (connects > 0 \/ conn # "idle" \/ subscribes > 0 \/ handled > 0)
              => ping = "ok"
        /\ ping = "fail" =>
              /\ pc = "raised"
              /\ connects = 0
              /\ subscribes = 0
              /\ handled = 0

\* The ping failed and run() raised.
C9_Witness ==
    /\ pipeline = "mongo"
    /\ ping = "fail"
    /\ pc = "raised"
    /\ exc = "PyMongoError"

\* C10: when the remote HTTP sink fails for a message (status other than
\* 200/201, network error or timeout, requests missing), the CSV row of the
\* message is in the file, on_message returns normally, nothing is
\* disconnected and the pipeline is subscribed and back in the loop.
C10_HttpFailureContained ==
    [][(last' # last /\ (last'.http \in HttpFailures
                          \/ (last'.supabase = "raised" /\ ~requests))) =>
          /\ last'.csv = "ok"
          /\ csvfile'.lines[Len(csvfile'.lines)] = DictWriterRow(last'.row[1])
          /\ Len(csvfile'.lines) = 1 + saved'
          /\ last'.ret = "normal"
          /\ pc' = "loop_check"
          /\ exc' = "none"
          /\ conn' = "subscribed"
          /\ disconnects' = 0]_vars

\* A POST was answered with status 500 and the loop goes on, subscribed.
C10_Witness ==
    /\ last.http = "500"
    /\ last.csv = "ok"
    /\ pc = "in_loop"
    /\ conn = "subscribed"

\* C11: in the Mongo pipeline a failed insert is not retried (one
\* insert_one call for the message), adds nothing to the collection, and
\* the handler returns normally with the pipeline subscribed and back in the
\* loop, so that the next message gets its own insert.
C11_InsertFailureContained ==
    /\ [][handled' = handled + 1 => inserts' <= inserts + 1]_vars
    /\ [][(pipeline = "mongo" /\ handled' = handled + 1
            /\ last'.insert = "PyMongoError") =>
            /\ inserts' = inserts + 1
            /\ col' = col
            /\ last'.ret = "normal"
            /\ pc' = "loop_check"
            /\ exc' = "none"
            /\ conn' = "subscribed"
            /\ disconnects' = 0]_vars
    /\ [](Len(col) <= inserts)

\* An insert failed, and the insert for the next message succeeded.
C11_Witness ==
    /\ pipeline = "mongo"
    /\ starts = 1
    /\ inserts = 2
    /\ Len(col) = 1
    /\ last.insert = "ok"
    /\ col[1] = last.doc[1]

\* The fixed tag and id each script gives to battery topics.
LegacyTag ==
    IF pipeline = "csv"
        THEN [device_type |-> "battery", device_id |-> "esp32_bms"]
        ELSE [device_type |-> "esp32", device_id |-> "esp32_1"]

\* The classification the rules give to the topic with segments parts.
ExpectedClass(parts) ==
    IF Len(parts) >= 4 /\ parts[1] = "energy"
        THEN [device_type |-> parts[2], device_id |-> parts[3]]
    ELSE IF parts[1] = "battery" THEN LegacyTag
    ELSE [device_type |-> "", device_id |-> ""]

\* C12: the record written for a message carries segments 1 and 2 of an
\* energy topic of at least 4 segments, else the fixed tag and id of the
\* script for a battery topic, else two empty strings; no topic makes the
\* handler fail.
C12_Classification ==
    (handled = 1 /\ last.decoded) =>
        /\ last.sinkUp => last.error = "none"
        /\ (pipeline = "csv" /\ last.sinkUp) =>
              /\ Len(csvfile.lines) = 2
              /\ LastLine[4] = ExpectedClass(last.topic).device_type
              /\ LastLine[5] = ExpectedClass(last.topic).device_id
        /\ (pipeline = "mongo" /\ last.sinkUp) =>
              /\ Len(col) = 1
              /\ col[1].device_type = ExpectedClass(last.topic).device_type
              /\ col[1].device_id = ExpectedClass(last.topic).device_id

\* A row was written for an energy topic of 4 segments.
C12_Witness ==
    /\ pipeline = "csv"
    /\ handled = 1
    /\ Len(last.topic) = 4
    /\ last.topic[1] = "energy"
    /\ last.csv = "ok"
    /\ LastLine[4] = last.topic[2]
    /\ LastLine[5] = last.topic[3]

\* The payload object of the handled message; empty when it is not an object.
HandledObject ==
    IF HandledBody.json = "object" THEN HandledBody.obj ELSE EmptyDict

\* The source keys of each field of a document and of a POSTed object.
DocSources ==
    [ voltage   |-> {"bus_V", "voltage"},
      current   |-> {"current_A", "current"},
      power     |-> {"power_W", "power"},
      soc       |-> {"soc_percent", "soc"},
      soh       |-> {"soh_percent", "soh"},
      uptime_ms |-> {"uptime_ms", "uptime"} ]

\* The source keys of the metric columns 6..12 of a CSV row.
CsvSources ==
    << {}, {}, {}, {}, {},
       {"bus_V", "voltage"}, {"shunt_mV"}, {"current_A", "current"},
       {"power_W", "power"}, {"soc_percent"}, {"soh_percent"}, {"uptime_ms"} >>

NoSourceKey(keys) == keys \cap DOMAIN HandledObject = {}

\* C13: in every record delivered to a sink (CSV row, Mongo document, POSTed
\* object) a field none of whose source keys is in the payload is neither 0
\* nor null.
C13_AbsentFieldEmpty ==
    (handled = 1 /\ last.decoded) =>
        /\ last.csv = "ok" =>
              \A i \in 6..12 :
                  NoSourceKey(CsvSources[i]) => LastLine[i] \notin {"0", "None"}
        /\ last.insert = "ok" =>
              \A k \in DocMetrics :
                  NoSourceKey(DocSources[k]) => col[1][k] \notin {"0", "None"}
        /\ last.supabase = "post" =>
              \A k \in DocMetrics :
                  NoSourceKey(DocSources[k]) => posts[1][k] \notin {"0", "None"}

\* The port of the claim when no port is given.
DefaultPort == IF scheme \in {"mqtts", "wss"} THEN 8883 ELSE 1883

\* C14 as stated: websockets iff the scheme is ws or wss; TLS iff the scheme
\* is mqtts or wss or the port is 8883 or 8884; the connection uses the
\* default port of the scheme when no port is given and every given port as
\* it is; the same in both pipelines.
C14_TransportChoice ==
    /\ transport = "websockets" <=> scheme \in {"ws", "wss"}
    /\ transport \in {"websockets", "tcp"}
    /\ tls <=> (scheme \in {"mqtts", "wss"} \/ port \in {8883, 8884})
    /\ connects > 0 =>
          connect_port = IF port = NoPort THEN DefaultPort ELSE port

\* C14 amended: as stated, but a given port 0 counts as no port given.
C14_TransportChoiceNonZero ==
    /\ transport = "websockets" <=> scheme \in {"ws", "wss"}
    /\ transport \in {"websockets", "tcp"}
    /\ tls <=> (scheme \in {"mqtts", "wss"} \/ port \in {8883, 8884})
    /\ connects > 0 =>
          connect_port = IF port \in {NoPort, 0} THEN DefaultPort ELSE port

\* The Mongo pipeline connected to port 8884 of a plain host: TLS on a tcp
\* transport.
C14_Witness ==
    /\ pipeline = "mongo"
    /\ scheme = "None"
    /\ port = 8884
    /\ connects = 1
    /\ connect_port = 8884
    /\ tls
    /\ transport = "tcp"

\* The fields a POSTed object and a CSV row share: <<field of the object,
\* field of the row>>.
SharedFields ==
    { <<"ts", "ts">>, <<"ts_iso", "ts_iso">>, <<"topic", "topic">>,
      <<"device_type", "device_type">>, <<"device_id", "device_id">>,
      <<"voltage", "voltage">>, <<"current", "current">>,
      <<"power", "power">>, <<"soc", "soc_percent">>,
      <<"soh", "soh_percent">>, <<"uptime_ms", "uptime_ms">>,
      <<"raw_payload", "raw_payload">> }

\* C15: for every message handled by the CSV pipeline with the remote sink
\* configured, the object sent to the remote sink has the same value as
\* the CSV row in every field they share.
C15_SameReading ==
    (pipeline = "csv" /\ handled = 1 /\ last.csv = "ok"
        /\ last.supabase = "post") =>
        \A f \in SharedFields :
            IF f[1] \in DocMetrics
                THEN SameValue(posts[1][f[1]], last.row[1][f[2]])
                ELSE posts[1][f[1]] = last.row[1][f[2]]

\* C16: in the CSV pipeline with endpoint and key configured, a message
\* whose row is written to the CSV file causes exactly one POST, whatever the
\* payload shape; without the endpoint or the key no POST is issued.
C16_OnePostPerRow ==
    pipeline = "csv" =>
        IF Configured THEN Len(posts) = saved ELSE Len(posts) = 0

\* The state of the pipeline's life cycle.  Without a transport connection
\* (never connected, refused, lost, closed) the pipeline is Disconnected.
Lifecycle ==
    CASE pc = "finally" -> "ShuttingDown"
      [] pc = "posting" -> "Processing"
      [] pc \in {"loop_check", "in_loop"} /\ conn = "connecting" -> "Connecting"
      [] pc \in {"loop_check", "in_loop"} /\ conn = "subscribed" -> "Subscribed"
      [] OTHER -> "Disconnected"

\* The transitions of the life cycle; a stop or an interrupt ends any state
\* of the receive loop, and the connection can be lost.
LifecycleEdges ==
    { <<"Disconnected", "Connecting">>, <<"Connecting", "Subscribed">>,
      <<"Subscribed", "Processing">>, <<"Processing", "Subscribed">>,
      <<"Subscribed", "ShuttingDown">>, <<"ShuttingDown", "Disconnected">>,
      <<"Connecting", "ShuttingDown">>, <<"Processing", "ShuttingDown">>,
      <<"Disconnected", "ShuttingDown">>,
      <<"Connecting", "Disconnected">>, <<"Subscribed", "Disconnected">> }

\* C17: the life cycle takes only its transitions; the subscription request
\* is issued once per connection acknowledgement and only on the step from
\* Connecting to Subscribed, never after a refused connection; a message is
\* processed only while Subscribed.
C17_Lifecycle ==
    [][ /\ Lifecycle' # Lifecycle => <<Lifecycle, Lifecycle'>> \in LifecycleEdges
        /\ subscribes' > subscribes =>
              /\ subscribes' = subscribes + 1
              /\ Lifecycle = "Connecting"
              /\ Lifecycle' = "Subscribed"
        /\ (Lifecycle = "Connecting" /\ Lifecycle' = "Subscribed") =>
              subscribes' = subscribes + 1
        /\ handled' > handled => Lifecycle = "Subscribed" ]_vars

\* C18: connect is called at most once per run; after the connection is
\* lost the pipeline never connects or subscribes again and handles no
\* further message, the receive loop keeps polling, and run leaves the loop
\* only when the stop flag is set or an interrupt is raised.
C18_NoReconnect ==
    /\ [](connects <= 1)
    /\ [](pc \in {"loop_check", "in_loop", "posting", "finally"} =>
              connects = 1)
    /\ [][(conn \in {"lost", "closed"} /\ starts' = starts) =>
              /\ conn' \in {"lost", "closed"}
              /\ connects' = connects
              /\ subscribes' = subscribes
              /\ handled' = handled
              /\ Lifecycle' \in {"Disconnected", "ShuttingDown"}]_vars
    /\ [](conn = "lost" /\ pc = "loop_check" /\ ~stop_requested =>
              ENABLED LoopCheck)
    /\ [][(conn = "lost" /\ pc = "loop_check" /\ pc' # pc
              /\ ~stop_requested /\ installed) => pc' = "in_loop"]_vars
    /\ [][(conn = "lost" /\ pc = "in_loop" /\ pc' # pc /\ installed) =>
              pc' = "loop_check"]_vars
    /\ [][(pc \in {"loop_check", "in_loop", "posting"} /\ pc' = "finally") =>
              stop_requested \/ ~installed]_vars

\* The connection was lost after one message was handled and the loop is in
\* a later poll, the stop flag not set.
C18_Witness ==
    /\ conn = "lost"
    /\ pc = "in_loop"
    /\ handled = 1
    /\ connects = 1
    /\ subscribes = 1
    /\ ~stop_requested

====
